---- MODULE Spec2Model ----
(***************************************************************************)
(* A model of gblock.py: the FASTA codec, the pairwise aligner, the        *)
(* center-star MSA builder, the alignment dispatcher, the column scorer,   *)
(* the block extractor and the pipeline.                                   *)
(*                                                                         *)
(* A string is a sequence of one-character strings; an entry (h, seq) is   *)
(* the record [h |-> label, s |-> residues]; a ratio (a Python float that  *)
(* is the quotient of two small integers) is the record [n, d], compared   *)
(* by cross-multiplication.                                                *)
(***************************************************************************)
EXTENDS Integers, Sequences, FiniteSets, TLC

\* ------------------------------------------------------------------ bounds
MaxEntries == 3
MaxSeqLen == 3

\* ------------------------------------------------------------- alphabets
GAP == "-"
Residues == {"A", "B"}
Labels == {"a", "b"}

\* ------------------------------------------------------- generic helpers
Max2(x, y) == IF x >= y THEN x ELSE y

RECURSIVE Repeat(_, _)
Repeat(ch, k) == IF k <= 0 THEN <<>> ELSE <<ch>> \o Repeat(ch, k - 1)

RECURSIVE Degap(_)
\* s.replace('-', '')
Degap(s) ==
  IF s = <<>> THEN <<>>
  ELSE IF Head(s) = GAP THEN Degap(Tail(s)) ELSE <<Head(s)>> \o Degap(Tail(s))

RECURSIVE SumSeq(_)
SumSeq(s) == IF s = <<>> THEN 0 ELSE Head(s) + SumSeq(Tail(s))

StringsUpTo(alphabet, n) == UNION {[1..k -> alphabet] : k \in 0..n}

\* ------------------------------------------------------ Pairwise Aligner
match == 1
mismatch == 0 - 1
gap == 0 - 2

\* One cell of the score/trace matrices of nw_align.
NwCell(sdiag, sup, sleft) ==
  IF sdiag >= sup /\ sdiag >= sleft THEN [score |-> sdiag, trace |-> 1]
  ELSE IF sup >= sleft THEN [score |-> sup, trace |-> 2]
  ELSE [score |-> sleft, trace |-> 3]

\* Row 0 of the matrices: cell j (stored at index j+1) is j*gap, trace 3.
NwRow0(m) == [jj \in 1..(m + 1) |->
                [score |-> (jj - 1) * gap, trace |-> IF jj = 1 THEN 0 ELSE 3]]

RECURSIVE NwFillRow(_, _, _, _)
\* Row i >= 1, filled left to right; cur holds cells 0..Len(cur)-1 of the row.
NwFillRow(prev, cur, ai, b) ==
  LET j == Len(cur) IN
  IF j > Len(b) THEN cur
  ELSE LET bj == b[j]
           sdiag == prev[j].score + (IF ai = bj THEN match ELSE mismatch)
           sup == prev[j + 1].score + gap
           sleft == cur[j].score + gap
       IN NwFillRow(prev, Append(cur, NwCell(sdiag, sup, sleft)), ai, b)

RECURSIVE NwMatrix(_, _, _)
\* rows holds rows 0..Len(rows)-1; the result holds rows 0..Len(a).
NwMatrix(rows, a, b) ==
  LET i == Len(rows) IN
  IF i > Len(a) THEN rows
  ELSE NwMatrix(Append(rows,
                  NwFillRow(rows[i], <<[score |-> i * gap, trace |-> 2]>>, a[i], b)),
                a, b)

\* The branch of the while loop taken for trace value t: 1, 2, or else.
TraceOf(t) == IF t = 1 THEN 1 ELSE IF t = 2 THEN 2 ELSE 3

\* The left move writing '-' into both strings
TraceStepGapBoth(t, a, b, i, j, A, B) ==
  IF t = 1 THEN [i |-> i - 1, j |-> j - 1, A |-> <<a[i]>> \o A, B |-> <<b[j]>> \o B]
  ELSE IF t = 2 THEN [i |-> i - 1, j |-> j, A |-> <<a[i]>> \o A, B |-> <<GAP>> \o B]
  ELSE [i |-> i, j |-> j - 1, A |-> <<GAP>> \o A, B |-> <<GAP>> \o B]

\* One pass of the while loop of nw_align; A and B are kept already reversed.
TraceStep(t, a, b, i, j, A, B) ==
  IF t = 1 THEN [i |-> i - 1, j |-> j - 1, A |-> <<a[i]>> \o A, B |-> <<b[j]>> \o B]
  ELSE IF t = 2 THEN [i |-> i - 1, j |-> j, A |-> <<a[i]>> \o A, B |-> <<GAP>> \o B]
  ELSE [i |-> i, j |-> j - 1, A |-> <<GAP>> \o A, B |-> <<b[j]>> \o B]

RECURSIVE NwTraceback(_, _, _, _, _, _, _)
\* The while loop of nw_align.
NwTraceback(mat, a, b, i, j, A, B) ==
  IF ~(i > 0 \/ j > 0) THEN <<A, B>>
  ELSE LET st == TraceStep(mat[i + 1][j + 1].trace, a, b, i, j, A, B)
       IN NwTraceback(mat, a, b, st.i, st.j, st.A, st.B)

\* nw_align(a, b): the pair <<aligned a, aligned b>>.
nw_align(a, b) ==
  NwTraceback(NwMatrix(<<NwRow0(Len(b))>>, a, b), a, b, Len(a), Len(b), <<>>, <<>>)

\* ---------------------------------------------- Center-Star MSA Builder
RECURSIVE GapPatternLoop(_, _, _, _, _)
\* The for loop of gap_pattern_from_aligned_base over the rest of aln_base.
GapPatternLoop(L, rest, gaps_before, i_base, run) ==
  IF rest = <<>> THEN [gaps_before EXCEPT ![L + 1] = @ + run]
  ELSE IF Head(rest) = GAP
       THEN GapPatternLoop(L, Tail(rest), gaps_before, i_base, run + 1)
       ELSE GapPatternLoop(L, Tail(rest),
              IF i_base < L THEN [gaps_before EXCEPT ![i_base + 1] = @ + run]
              ELSE gaps_before,
              i_base + 1, 0)

gap_pattern_from_aligned_base(base_ref, aln_base) ==
  GapPatternLoop(Len(base_ref), aln_base, [k \in 1..(Len(base_ref) + 1) |-> 0], 0, 0)

\* The position-wise sum in place of the maximum
MergeGapPatternsSum(p1, p2) ==
  [i \in 1..Max2(Len(p1), Len(p2)) |->
     (IF i <= Len(p1) THEN p1[i] ELSE 0) + (IF i <= Len(p2) THEN p2[i] ELSE 0)]

merge_gap_patterns_max(p1, p2) ==
  [i \in 1..Max2(Len(p1), Len(p2)) |->
     Max2(IF i <= Len(p1) THEN p1[i] ELSE 0, IF i <= Len(p2) THEN p2[i] ELSE 0)]

RECURSIVE ExpandAlnBase(_, _, _)
\* The first loop of expand_to_pattern: the base row rebuilt from aln_seq.
ExpandAlnBase(base_ref, rest, j_base) ==
  IF rest = <<>> THEN <<>>
  ELSE IF Head(rest) = GAP
       THEN <<GAP>> \o ExpandAlnBase(base_ref, Tail(rest), j_base)
       ELSE <<base_ref[j_base + 1]>> \o ExpandAlnBase(base_ref, Tail(rest), j_base + 1)

RECURSIVE ExpandInnerBreakFirst(_, _, _, _)
\* A slip: the break comes before out.append(ch_a).
ExpandInnerBreakFirst(aln_seq, aln_base, i_aln, out) ==
  IF ~(i_aln < Len(aln_seq)) THEN <<out, i_aln>>
  ELSE LET ch_a == aln_seq[i_aln + 1]
           ch_b == aln_base[i_aln + 1]
       IN IF ch_b /= GAP THEN <<out, i_aln + 1>>
          ELSE ExpandInnerBreakFirst(aln_seq, aln_base, i_aln + 1, Append(out, ch_a))

RECURSIVE ExpandInner(_, _, _, _)
\* The inner while loop: copies aln_seq from i_aln up to and including the
\* first position whose base character is not a gap; <<out, i_aln>>.
ExpandInner(aln_seq, aln_base, i_aln, out) ==
  IF ~(i_aln < Len(aln_seq)) THEN <<out, i_aln>>
  ELSE LET ch_a == aln_seq[i_aln + 1]
           ch_b == aln_base[i_aln + 1]
       IN IF ch_b /= GAP THEN <<Append(out, ch_a), i_aln + 1>>
          ELSE ExpandInner(aln_seq, aln_base, i_aln + 1, Append(out, ch_a))

RECURSIVE ExpandOuter(_, _, _, _, _, _, _)
\* The loop for k in range(L), then the trailing gaps.
ExpandOuter(L, aln_seq, aln_base, target_gaps, k, i_aln, out) ==
  IF k >= L THEN out \o Repeat(GAP, target_gaps[L + 1])
  ELSE LET r == ExpandInner(aln_seq, aln_base, i_aln,
                            out \o Repeat(GAP, target_gaps[k + 1]))
       IN ExpandOuter(L, aln_seq, aln_base, target_gaps, k + 1, r[2], r[1])

expand_to_pattern(base_ref, aln_seq, target_gaps) ==
  ExpandOuter(Len(base_ref), aln_seq, ExpandAlnBase(base_ref, aln_seq, 0),
              target_gaps, 0, 0, <<>>)

\* max(range(len(entries)), key=...): the first index of a longest sequence.
center_idx(es) ==
  CHOOSE i \in 1..Len(es) :
    /\ \A j \in 1..Len(es) : Len(es[j].s) <= Len(es[i].s)
    /\ \A j \in 1..(i - 1) : Len(es[j].s) < Len(es[i].s)

\* order = {h: i for i, (h, _) in enumerate(entries)}: a later entry with the
\* same label overwrites the earlier one.
OrderOf(es, h) ==
  CHOOSE i \in 1..Len(es) :
    es[i].h = h /\ \A j \in (i + 1)..Len(es) : es[j].h /= h

RECURSIVE InsertByKey(_, _, _)
\* x goes after every element whose key is <= its own (a stable sort).
InsertByKey(sorted, x, es) ==
  IF sorted = <<>> THEN <<x>>
  ELSE IF OrderOf(es, Head(sorted).h) <= OrderOf(es, x.h)
       THEN <<Head(sorted)>> \o InsertByKey(Tail(sorted), x, es)
       ELSE <<x>> \o sorted

RECURSIVE SortByOrder(_, _)
\* out.sort(key=lambda x: order[x[0]])
SortByOrder(zs, es) ==
  IF zs = <<>> THEN <<>>
  ELSE InsertByKey(SortByOrder(SubSeq(zs, 1, Len(zs) - 1), es), zs[Len(zs)], es)

\* One iteration of the for loop of center_star_align on entry (h, seq);
\* st holds master_gaps, aligned_headers and aligned_seqs.
CenterStarBody(base_ref, st, e) ==
  LET al == nw_align(base_ref, e.s)
      aln_base == al[1]
      aln_seq == al[2]
      gaps_new == gap_pattern_from_aligned_base(base_ref, aln_base)
      merged == merge_gap_patterns_max(st.master_gaps, gaps_new)
  IN [master_gaps |-> merged,
      aligned_headers |-> Append(st.aligned_headers, e.h),
      aligned_seqs |->
        Append([i \in 1..Len(st.aligned_seqs) |->
                  expand_to_pattern(base_ref, st.aligned_seqs[i], merged)],
               expand_to_pattern(base_ref, aln_seq, merged))]

\* The state of center_star_align before its loop.
CenterStarStart(es) ==
  [master_gaps |-> [k \in 1..(Len(es[center_idx(es)].s) + 1) |-> 0],
   aligned_headers |-> <<>>,
   aligned_seqs |-> <<>>]

\* The return value: zip(aligned_headers, aligned_seqs) sorted by order.
CenterStarOut(es, st) ==
  SortByOrder([i \in 1..Len(st.aligned_seqs) |->
                 [h |-> st.aligned_headers[i], s |-> st.aligned_seqs[i]]], es)

RECURSIVE CenterStarLoop(_, _, _)
CenterStarLoop(es, st, i) ==
  IF i >= Len(es) THEN st
  ELSE CenterStarLoop(es, CenterStarBody(es[center_idx(es)].s, st, es[i + 1]), i + 1)

center_star_align(es) == CenterStarOut(es, CenterStarLoop(es, CenterStarStart(es), 0))

\* ------------------------------------------------------------ FASTA Codec
NL == "\n"
GT == ">"
SP == " "
unnamed == <<"u", "n", "n", "a", "m", "e", "d">>

RECURSIVE SplitLines(_, _)
\* The lines a text file yields, without their line ends; cur is the line
\* being read. A text that ends with a line end yields no empty last line.
SplitLines(t, cur) ==
  IF t = <<>> THEN (IF cur = <<>> THEN <<>> ELSE <<cur>>)
  ELSE IF Head(t) = NL THEN <<cur>> \o SplitLines(Tail(t), <<>>)
  ELSE SplitLines(Tail(t), Append(cur, Head(t)))

RECURSIVE LStrip(_)
LStrip(s) == IF s /= <<>> /\ Head(s) = SP THEN LStrip(Tail(s)) ELSE s

RECURSIVE RStrip(_)
RStrip(s) ==
  IF s /= <<>> /\ s[Len(s)] = SP THEN RStrip(SubSeq(s, 1, Len(s) - 1)) ELSE s

\* str.strip()
Strip(s) == RStrip(LStrip(s))

RECURSIVE Join(_)
\* "".join(buf)
Join(buf) == IF buf = <<>> THEN <<>> ELSE Head(buf) \o Join(Tail(buf))

RECURSIVE ParseLoop(_, _, _, _, _)
\* The for loop of parse_fasta and the flush after it; has_h is "h is not None".
ParseLoop(lines, xs, has_h, h, buf) ==
  IF lines = <<>>
  THEN (IF has_h THEN Append(xs, [h |-> h, s |-> Join(buf)]) ELSE xs)
  ELSE LET s == Strip(Head(lines)) IN
       IF s = <<>> THEN ParseLoop(Tail(lines), xs, has_h, h, buf)
       ELSE IF Head(s) = GT
            THEN ParseLoop(Tail(lines),
                   IF has_h THEN Append(xs, [h |-> h, s |-> Join(buf)]) ELSE xs,
                   TRUE,
                   IF Strip(Tail(s)) = <<>> THEN unnamed ELSE Strip(Tail(s)),
                   <<>>)
            ELSE ParseLoop(Tail(lines), xs, has_h, h, Append(buf, s))

\* parse_fasta on the text of the file: the entries, or the ValueError.
parse_fasta(t) ==
  LET xs == ParseLoop(SplitLines(t, <<>>), <<>>, FALSE, <<>>, <<>>) IN
  IF xs = <<>> THEN [kind |-> "ValueError", entries |-> <<>>]
  ELSE [kind |-> "ok", entries |-> xs]

RECURSIVE WrapLinesFullOnly(_, _)
\* A slip: range(0, len(seq) - wrap + 1, wrap) skips a last, shorter chunk.
WrapLinesFullOnly(seq, w) ==
  IF Len(seq) < w THEN <<>>
  ELSE SubSeq(seq, 1, w) \o <<NL>> \o WrapLinesFullOnly(SubSeq(seq, w + 1, Len(seq)), w)

RECURSIVE WrapLines(_, _)
\* for i in range(0, len(seq), wrap): out.write(seq[i:i+wrap] + "\n")
WrapLines(seq, w) ==
  IF seq = <<>> THEN <<>>
  ELSE IF Len(seq) <= w THEN seq \o <<NL>>
  ELSE SubSeq(seq, 1, w) \o <<NL>> \o WrapLines(SubSeq(seq, w + 1, Len(seq)), w)

WriteEntry(e, w) ==
  <<GT>> \o e.h \o <<NL>> \o (IF w > 0 THEN WrapLines(e.s, w) ELSE e.s \o <<NL>>)

RECURSIVE write_fasta(_, _)
\* The text write_fasta leaves in the file.
write_fasta(es, w) ==
  IF es = <<>> THEN <<>> ELSE WriteEntry(Head(es), w) \o write_fasta(Tail(es), w)

\* --------------------------------------------------------- Column Scorer
\* A float that is the quotient n/d of two integers, d > 0.
Ratio(n, d) == [n |-> n, d |-> d]
RLeq(x, y) == x.n * y.d <= y.n * x.d
RGeq(x, y) == RLeq(y, x)
REq(x, y) == x.n * y.d = y.n * x.d
\* flank_cons=None
None == Ratio(0 - 1, 1)

\* len({len(s) for _, s in entries}) == 1
all_equal_length(es) == Cardinality({Len(es[i].s) : i \in 1..Len(es)}) = 1

RECURSIVE CntLoop(_, _)
\* for c in non: cnt[c] = cnt.get(c, 0) + 1
CntLoop(non, cnt) ==
  IF non = <<>> THEN cnt
  ELSE LET c == Head(non) IN
       CntLoop(Tail(non),
               IF c \in DOMAIN cnt THEN [cnt EXCEPT ![c] = @ + 1]
               ELSE (c :> 1) @@ cnt)

\* max(cnt.values())
MaxValue(cnt) ==
  CHOOSE v \in {cnt[c] : c \in DOMAIN cnt} : \A c \in DOMAIN cnt : cnt[c] <= v

\* A slip: cons_ratio divides by the number of sequences, gaps included.
ColumnMetricOverAll(aligned, i) ==
  LET n == Len(aligned)
      col == [r \in 1..n |-> aligned[r][i]]
      gaps == SumSeq([r \in 1..n |-> IF col[r] = GAP THEN 1 ELSE 0])
      non == Degap(col)
  IN [gap_ratio |-> Ratio(gaps, n),
      cons_ratio |-> IF non = <<>> THEN Ratio(0, 1)
                     ELSE Ratio(MaxValue(CntLoop(non, <<>>)), n)]

\* The body of the loop of column_metrics for column i (1-based).
ColumnMetric(aligned, i) ==
  LET n == Len(aligned)
      col == [r \in 1..n |-> aligned[r][i]]
      gaps == SumSeq([r \in 1..n |-> IF col[r] = GAP THEN 1 ELSE 0])
      non == Degap(col)
  IN [gap_ratio |-> Ratio(gaps, n),
      cons_ratio |-> IF non = <<>> THEN Ratio(0, 1)
                     ELSE Ratio(MaxValue(CntLoop(non, <<>>)), Len(non))]

column_metrics(aligned) ==
  [i \in 1..Len(aligned[1]) |-> ColumnMetric(aligned, i)]

\* -------------------------------------------------------- Block Extractor
RECURSIVE RunEnd(_, _)
\* while j < L and not m[j]: j += 1   (j is 0-based)
RunEnd(m, j) == IF j < Len(m) /\ ~m[j + 1] THEN RunEnd(m, j + 1) ELSE j

RECURSIVE AllowLoopWrap(_, _, _)
\* A slip: without the test i-1 >= 0, m[i-1] reads the last column for i = 0.
AllowLoopWrap(m, i, max_run) ==
  IF ~(i < Len(m)) THEN m
  ELSE IF ~m[i + 1]
       THEN LET j == RunEnd(m, i)
                run == j - i
                left_true == IF i = 0 THEN m[Len(m)] ELSE m[i]
                right_true == j < Len(m) /\ m[j + 1]
            IN AllowLoopWrap(IF run <= max_run /\ left_true /\ right_true
                         THEN [k \in 1..Len(m) |-> IF i < k /\ k <= j THEN TRUE ELSE m[k]]
                         ELSE m,
                         j, max_run)
       ELSE AllowLoopWrap(m, i + 1, max_run)

RECURSIVE AllowLoop(_, _, _)
\* The while loop of _allow_short_nonconserved_runs (i is 0-based).
AllowLoop(m, i, max_run) ==
  IF ~(i < Len(m)) THEN m
  ELSE IF ~m[i + 1]
       THEN LET j == RunEnd(m, i)
                run == j - i
                left_true == i - 1 >= 0 /\ m[i]
                right_true == j < Len(m) /\ m[j + 1]
            IN AllowLoop(IF run <= max_run /\ left_true /\ right_true
                         THEN [k \in 1..Len(m) |-> IF i < k /\ k <= j THEN TRUE ELSE m[k]]
                         ELSE m,
                         j, max_run)
       ELSE AllowLoop(m, i + 1, max_run)

_allow_short_nonconserved_runs(mask0, max_run0) ==
  IF max_run0 <= 0 THEN mask0 ELSE AllowLoop(mask0, 0, max_run0)

RECURSIVE FindLoop(_, _, _, _, _)
\* The loop of find_blocks over mask+[False]; s = -1 stands for None, blocks
\* are pairs <<s, e>> of 0-based column indices, e exclusive.
FindLoop(mk, i, s, bl, min_len0) ==
  IF i >= Len(mk) THEN bl
  ELSE LET keep == mk[i + 1] IN
       IF keep /\ s = 0 - 1 THEN FindLoop(mk, i + 1, i, bl, min_len0)
       ELSE IF ~keep /\ s /= 0 - 1
            THEN FindLoop(mk, i + 1, 0 - 1,
                          IF i - s >= min_len0 THEN Append(bl, <<s, i>>) ELSE bl,
                          min_len0)
            ELSE FindLoop(mk, i + 1, s, bl, min_len0)

\* The loop over mask alone, without the closing False
FindBlocksNoSentinel(mask0, min_len0) == FindLoop(mask0, 0, 0 - 1, <<>>, min_len0)

find_blocks(mask0, min_len0) == FindLoop(Append(mask0, FALSE), 0, 0 - 1, <<>>, min_len0)

\* gap_ratio <= max_gap and cons_ratio >= flank_cons
FlankOk(met, flank_cons, max_gap) ==
  RLeq(met.gap_ratio, max_gap) /\ RGeq(met.cons_ratio, flank_cons)

RECURSIVE TrimLeft(_, _, _, _, _)
TrimLeft(s, e, mets0, flank_cons, max_gap) ==
  IF s < e /\ ~FlankOk(mets0[s + 1], flank_cons, max_gap)
  THEN TrimLeft(s + 1, e, mets0, flank_cons, max_gap) ELSE s

RECURSIVE TrimRight(_, _, _, _, _)
TrimRight(s, e, mets0, flank_cons, max_gap) ==
  IF e > s /\ ~FlankOk(mets0[e], flank_cons, max_gap)
  THEN TrimRight(s, e - 1, mets0, flank_cons, max_gap) ELSE e

\* The first while loop alone: the right end is left where it was
SoftTrimLeftOnly(b, mets0, flank_cons, max_gap) ==
  LET s == TrimLeft(b[1], b[2], mets0, flank_cons, max_gap)
  IN IF b[2] > s THEN <<s, b[2]>> ELSE <<>>

\* soft_trim_block: the pair <<s, e>>, or <<>> for None.
soft_trim_block(b, mets0, flank_cons, max_gap) ==
  LET s == TrimLeft(b[1], b[2], mets0, flank_cons, max_gap)
      e == TrimRight(s, b[2], mets0, flank_cons, max_gap)
  IN IF e > s THEN <<s, e>> ELSE <<>>

RECURSIVE TrimBlocks(_, _, _)
\* [tb for b in blocks if (tb := soft_trim_block(...)) and tb[1]-tb[0] >= min_block_len]
TrimBlocks(bl, mets0, P) ==
  IF bl = <<>> THEN <<>>
  ELSE LET tb == soft_trim_block(Head(bl), mets0, P.flank_cons, P.max_gap) IN
       (IF tb /= <<>> /\ tb[2] - tb[1] >= P.min_block_len THEN <<tb>> ELSE <<>>)
         \o TrimBlocks(Tail(bl), mets0, P)

RECURSIVE KeepOfShort(_)
\* A slip: range(s, e - 1) leaves out the last column of every block.
KeepOfShort(bl) ==
  IF bl = <<>> THEN <<>>
  ELSE [k \in 1..(Head(bl)[2] - Head(bl)[1] - 1) |-> Head(bl)[1] + k - 1]
         \o KeepOfShort(Tail(bl))

RECURSIVE KeepOf(_)
\* for s, e in blocks: keep.extend(range(s, e))
KeepOf(bl) ==
  IF bl = <<>> THEN <<>>
  ELSE [k \in 1..(Head(bl)[2] - Head(bl)[1]) |-> Head(bl)[1] + k - 1] \o KeepOf(Tail(bl))

RECURSIVE DropAllGap(_, _)
\* [i for i in keep if any(seq[i] != '-' for seq in seqs)]
DropAllGap(keep, seqs) ==
  IF keep = <<>> THEN <<>>
  ELSE (IF \E r \in 1..Len(seqs) : seqs[r][Head(keep) + 1] /= GAP
        THEN <<Head(keep)>> ELSE <<>>) \o DropAllGap(Tail(keep), seqs)

\* A slip: nothing at all is returned when no block survives.
FilterOutputReturnsNothing(es, bl, keep) ==
  IF bl = <<>> THEN <<>>
  ELSE [r \in 1..Len(es) |->
          [h |-> es[r].h, s |-> [k \in 1..Len(keep) |-> es[r].s[keep[k] + 1]]]]

\* The two returns of gblock_filter: empty residues when no block survives,
\* else the kept columns of every entry.
FilterOutput(es, bl, keep) ==
  IF bl = <<>> THEN [r \in 1..Len(es) |-> [h |-> es[r].h, s |-> <<>>]]
  ELSE [r \in 1..Len(es) |->
          [h |-> es[r].h, s |-> [k \in 1..Len(keep) |-> es[r].s[keep[k] + 1]]]]

\* gblock_filter with its intermediate values. kind is "ok" or the error.
gblock_filter(es, P) ==
  IF ~all_equal_length(es)
  THEN [kind |-> "ValueError: equal length required", entries |-> <<>>,
        mets |-> <<>>, mask |-> <<>>, raw_blocks |-> <<>>, blocks |-> <<>>, keep |-> <<>>]
  ELSE
    LET seqs == [r \in 1..Len(es) |-> es[r].s]
        mets0 == column_metrics(seqs)
        base == [i \in 1..Len(mets0) |->
                   RLeq(mets0[i].gap_ratio, P.max_gap) /\ RGeq(mets0[i].cons_ratio, P.min_cons)]
        mask0 == IF P.max_noncons_run > 0
                 THEN _allow_short_nonconserved_runs(base, P.max_noncons_run) ELSE base
        raw == find_blocks(mask0, P.min_block_len)
        bl == IF P.flank_cons /= None THEN TrimBlocks(raw, mets0, P) ELSE raw
        keep0 == KeepOf(bl)
        keep == IF P.drop_all_gap_columns THEN DropAllGap(keep0, seqs) ELSE keep0
    IN [kind |-> "ok", entries |-> FilterOutput(es, bl, keep),
        mets |-> mets0, mask |-> mask0, raw_blocks |-> raw, blocks |-> bl, keep |-> keep]

\* ---------------------------------------------------- Alignment Dispatcher
\* str.lower() on the aligner names the model uses.
Lower(a) ==
  CASE a = "MAFFT" -> "mafft"
    [] a = "Muscle" -> "muscle"
    [] OTHER -> a

\* The value of chosen after the "auto" branch of auto_align_if_needed; env
\* records what shutil.which finds.
Chosen(aligner, env) ==
  IF Lower(aligner) = "auto"
  THEN (IF env.has_mafft THEN "mafft" ELSE IF env.has_muscle THEN "muscle" ELSE "none")
  ELSE Lower(aligner)

\* which_or_path(exe) or shutil.which("mafft") / shutil.which("muscle")
ExeFound(tool, env) ==
  env.exe_ok \/ (IF tool = "mafft" THEN env.has_mafft ELSE env.has_muscle)

\* A slip: the test of the lengths is left out.
NeedsAlignmentByCount(es) == Len(es) > 1

\* not (len(entries) <= 1 or all_equal_length(entries))
NeedsAlignment(es) == ~(Len(es) <= 1 \/ all_equal_length(es))

MaxLenOf(es) == CHOOSE n \in {Len(es[i].s) : i \in 1..Len(es)} :
                  \A i \in 1..Len(es) : Len(es[i].s) <= n

\* What an external aligner may leave in out.fasta, read back by parse_fasta:
\* an alignment (here: padded on the right), its input unchanged (a defective
\* tool), or nothing that parses.
ExternalOutputs(es) ==
  { [kind |-> "ok",
     entries |-> [i \in 1..Len(es) |->
                    [h |-> es[i].h,
                     s |-> es[i].s \o Repeat(GAP, MaxLenOf(es) - Len(es[i].s))]]],
    [kind |-> "ok", entries |-> es],
    [kind |-> "ValueError", entries |-> <<>>] }

\* ------------------------------------------------- Gblocks-style parameters
UpperCase == <<"A", "B", "C", "D", "E", "F", "G", "H", "I", "J", "K", "L", "M",
               "N", "O", "P", "Q", "R", "S", "T", "U", "V", "W", "X", "Y", "Z">>
LowerCase == <<"a", "b", "c", "d", "e", "f", "g", "h", "i", "j", "k", "l", "m",
               "n", "o", "p", "q", "r", "s", "t", "u", "v", "w", "x", "y", "z">>
Digits == <<"0", "1", "2", "3", "4", "5", "6", "7", "8", "9">>

LowerChar(c) ==
  IF \E i \in 1..Len(UpperCase) : UpperCase[i] = c
  THEN LowerCase[CHOOSE i \in 1..Len(UpperCase) : UpperCase[i] = c]
  ELSE c

\* mode.lower()
LowerStr(mode) == [i \in 1..Len(mode) |-> LowerChar(mode[i])]

IsDigit(c) == \E i \in 1..Len(Digits) : Digits[i] = c
DigitVal(c) == (CHOOSE i \in 1..Len(Digits) : Digits[i] = c) - 1

RECURSIVE DigitsVal(_, _)
\* The number written by the digit string ds, after the digits worth acc.
DigitsVal(ds, acc) ==
  IF ds = <<>> THEN acc ELSE DigitsVal(Tail(ds), 10 * acc + DigitVal(Head(ds)))

RECURSIVE Pow10(_)
Pow10(k) == IF k <= 0 THEN 1 ELSE 10 * Pow10(k - 1)

\* float(mode) for the spellings without exponent, blanks or underscores:
\* [sign] digits [. digits], [sign] . digits, [sign] inf | infinity | nan.
\* kind is "num" (value r), "+inf", "-inf", "nan" or "ValueError".
FloatOf(mode) ==
  LET signed == mode /= <<>> /\ Head(mode) \in {"+", "-"}
      neg == signed /\ Head(mode) = "-"
      body == IF signed THEN Tail(mode) ELSE mode
      word == LowerStr(body)
      dots == {i \in 1..Len(body) : body[i] = "."}
      dot == IF dots = {} THEN Len(body) + 1 ELSE CHOOSE i \in dots : TRUE
      ip == SubSeq(body, 1, dot - 1)
      fp == SubSeq(body, dot + 1, Len(body))
      wellFormed == /\ Cardinality(dots) <= 1
                    /\ \A i \in 1..Len(body) : i \in dots \/ IsDigit(body[i])
                    /\ Len(ip) + Len(fp) >= 1
      mag == DigitsVal(ip \o fp, 0)
  IN IF word \in {<<"i", "n", "f">>, <<"i", "n", "f", "i", "n", "i", "t", "y">>}
     THEN [kind |-> IF neg THEN "-inf" ELSE "+inf", r |-> Ratio(0, 1)]
     ELSE IF word = <<"n", "a", "n">>
     THEN [kind |-> "nan", r |-> Ratio(0, 1)]
     ELSE IF wellFormed
     THEN [kind |-> "num", r |-> Ratio(IF neg THEN 0 - mag ELSE mag, Pow10(Len(fp)))]
     ELSE [kind |-> "ValueError", r |-> Ratio(0, 1)]

\* max(0.0, min(1.0, v)); min and max return their first argument unless the
\* second compares smaller (greater), so nan gives 1.0.
ClampUnit(v) ==
  CASE v.kind = "nan" -> Ratio(1, 1)
    [] v.kind = "+inf" -> Ratio(1, 1)
    [] v.kind = "-inf" -> Ratio(0, 1)
    [] OTHER -> IF RLeq(v.r, Ratio(0, 1)) THEN Ratio(0, 1)
                ELSE IF RLeq(Ratio(1, 1), v.r) THEN Ratio(1, 1) ELSE v.r

gb_allowed_gap_to_max_gap(mode0) ==
  LET mode == LowerStr(mode0)
  IN IF mode = <<"n", "o", "n", "e">> THEN Ratio(0, 1)
     ELSE IF mode = <<"h", "a", "l", "f">> THEN Ratio(1, 2)
     ELSE IF mode = <<"a", "l", "l">> THEN Ratio(1, 1)
     ELSE IF FloatOf(mode).kind = "ValueError" THEN Ratio(1, 2)
     ELSE ClampUnit(FloatOf(mode))

Min2(x, y) == IF x <= y THEN x ELSE y

\* min(count, N) alone, without the lower limit 1
ClampCountNoFloor(count, N0) == Min2(count, N0)

\* max(1, min(count, N))
ClampCount(count, N0) == Max2(1, Min2(count, N0))

\* The arguments are N, gb_min_cons_count, gb_flank_cons_count,
\* gb_max_noncons_run, gb_min_block_len and gb_allowed_gap.
convert_gblocks_params_to_internal(N0, min_cc, flank_cc, max_run0, min_len0, allowed_gap) ==
  LET N1 == Max2(1, N0)
      mc == ClampCount(min_cc, N1)
      mf == ClampCount(flank_cc, N1)
  IN [min_block_len |-> Max2(1, min_len0),
      max_gap |-> gb_allowed_gap_to_max_gap(allowed_gap),
      min_cons |-> Ratio(mc, N1),
      flank_cons |-> Ratio(mf, N1),
      max_noncons_run |-> Max2(0, max_run0)]

\* ------------------------------------------------------------------ state
VARIABLES
  entries, cs_pc, master_gaps, aligned_headers, aligned_seqs, out,  \* center_star_align
  text, wrap, fa_pc, xs, written, xs2,                              \* FASTA round trip
  mask, max_run, min_len, mk_pc, m, blocks,                         \* mask and blocks
  f_entries, f_params, f_pc, run1, run2,                            \* gblock_filter
  p_entries, p_cfg, p_env, p_params, p_pc, aln, invoked, trimmed,   \* gblock_pipeline
  N, gb_min_cons_count, gb_flank_cons_count, gb_max_noncons_run,
  gb_min_block_len, gb_allowed_gap, cv_pc, internal,                \* parameter conversion
  nw_a, nw_b, nw_pc, nw_mat, nw_i, nw_j, nw_A, nw_B, nw_ret         \* nw_align

csVars == <<entries, cs_pc, master_gaps, aligned_headers, aligned_seqs, out>>
faVars == <<text, wrap, fa_pc, xs, written, xs2>>
mkVars == <<mask, max_run, min_len, mk_pc, m, blocks>>
gfVars == <<f_entries, f_params, f_pc, run1, run2>>
plVars == <<p_entries, p_cfg, p_env, p_params, p_pc, aln, invoked, trimmed>>
cvVars == <<N, gb_min_cons_count, gb_flank_cons_count, gb_max_noncons_run,
            gb_min_block_len, gb_allowed_gap, cv_pc, internal>>
nwVars == <<nw_a, nw_b, nw_pc, nw_mat, nw_i, nw_j, nw_A, nw_B, nw_ret>>
vars == <<csVars, faVars, mkVars, gfVars, plVars, cvVars, nwVars>>

\* The variables of a component that a specification does not run.
CSIdle ==
  /\ entries = <<>> /\ cs_pc = "idle" /\ master_gaps = <<>>
  /\ aligned_headers = <<>> /\ aligned_seqs = <<>> /\ out = <<>>
FAIdle ==
  /\ text = <<>> /\ wrap = 0 /\ fa_pc = "idle"
  /\ xs = <<>> /\ written = <<>> /\ xs2 = <<>>
MKIdle ==
  /\ mask = <<>> /\ max_run = 0 /\ min_len = 0 /\ mk_pc = "idle"
  /\ m = <<>> /\ blocks = <<>>
GFIdle ==
  /\ f_entries = <<>> /\ f_params = <<>> /\ f_pc = "idle"
  /\ run1 = <<>> /\ run2 = <<>>
PLIdle ==
  /\ p_entries = <<>> /\ p_cfg = <<>> /\ p_env = <<>> /\ p_params = <<>>
  /\ p_pc = "idle" /\ aln = <<>> /\ invoked = "none" /\ trimmed = <<>>
CVIdle ==
  /\ N = 0 /\ gb_min_cons_count = 0 /\ gb_flank_cons_count = 0
  /\ gb_max_noncons_run = 0 /\ gb_min_block_len = 0 /\ gb_allowed_gap = <<>>
  /\ cv_pc = "idle" /\ internal = <<>>
NWIdle ==
  /\ nw_a = <<>> /\ nw_b = <<>> /\ nw_pc = "idle" /\ nw_mat = <<>>
  /\ nw_i = 0 /\ nw_j = 0 /\ nw_A = <<>> /\ nw_B = <<>> /\ nw_ret = <<>>

\* ------------------------------------------- center_star_align, step by step
\* The lists of k labelled gap-free sequences of length <= len.
EntryLists(k, len) == [1..k -> [h : Labels, s : StringsUpTo(Residues, len)]]

CSState == [master_gaps |-> master_gaps, aligned_headers |-> aligned_headers,
            aligned_seqs |-> aligned_seqs]

CSInit ==
  /\ \E k \in 1..MaxEntries : entries \in EntryLists(k, MaxSeqLen)
  /\ cs_pc = "loop"
  /\ master_gaps = CenterStarStart(entries).master_gaps
  /\ aligned_headers = <<>>
  /\ aligned_seqs = <<>>
  /\ out = <<>>
  /\ FAIdle /\ MKIdle /\ GFIdle /\ PLIdle /\ CVIdle /\ NWIdle

\* One pass of the for loop of center_star_align.
CSLoopBody ==
  /\ cs_pc = "loop"
  /\ Len(aligned_seqs) < Len(entries)
  /\ LET st == CenterStarBody(entries[center_idx(entries)].s, CSState,
                              entries[Len(aligned_seqs) + 1])
     IN /\ master_gaps' = st.master_gaps
        /\ aligned_headers' = st.aligned_headers
        /\ aligned_seqs' = st.aligned_seqs
  /\ UNCHANGED <<entries, cs_pc, out, faVars, mkVars, gfVars, plVars, cvVars, nwVars>>

\* The sort and the return of center_star_align.
CSReturn ==
  /\ cs_pc = "loop"
  /\ Len(aligned_seqs) = Len(entries)
  /\ out' = CenterStarOut(entries, CSState)
  /\ cs_pc' = "done"
  /\ UNCHANGED <<entries, master_gaps, aligned_headers, aligned_seqs, faVars, mkVars, gfVars, plVars, cvVars, nwVars>>

CSNext == CSLoopBody \/ CSReturn

SpecCS == CSInit /\ [][CSNext]_vars

\* ------------------------------------- FASTA: parse, write, parse again
MaxTextLen == 5
MaxWrap == 2
TextChars == {"A", GT, SP, NL}

FAInit ==
  /\ text \in StringsUpTo(TextChars, MaxTextLen)
  /\ wrap \in (0 - 1)..MaxWrap
  /\ fa_pc = "parse"
  /\ xs = <<>> /\ written = <<>> /\ xs2 = <<>>
  /\ CSIdle /\ MKIdle /\ GFIdle /\ PLIdle /\ CVIdle /\ NWIdle

\* parse_fasta accepts the text.
FAParse ==
  /\ fa_pc = "parse"
  /\ parse_fasta(text).kind = "ok"
  /\ xs' = parse_fasta(text).entries
  /\ fa_pc' = "write"
  /\ UNCHANGED <<text, wrap, written, xs2, csVars, mkVars, gfVars, plVars, cvVars, nwVars>>

\* parse_fasta raises ValueError("No FASTA entries found.").
FAParseError ==
  /\ fa_pc = "parse"
  /\ parse_fasta(text).kind = "ValueError"
  /\ fa_pc' = "ValueError"
  /\ UNCHANGED <<text, wrap, xs, written, xs2, csVars, mkVars, gfVars, plVars, cvVars, nwVars>>

FAWrite ==
  /\ fa_pc = "write"
  /\ written' = write_fasta(xs, wrap)
  /\ fa_pc' = "reparse"
  /\ UNCHANGED <<text, wrap, xs, xs2, csVars, mkVars, gfVars, plVars, cvVars, nwVars>>

FAReparse ==
  /\ fa_pc = "reparse"
  /\ xs2' = parse_fasta(written)
  /\ fa_pc' = "done"
  /\ UNCHANGED <<text, wrap, xs, written, csVars, mkVars, gfVars, plVars, cvVars, nwVars>>

FANext == FAParse \/ FAParseError \/ FAWrite \/ FAReparse

SpecFasta == FAInit /\ [][FANext]_vars

\* ------------------------- _allow_short_nonconserved_runs and find_blocks
MaxMaskLen == 5
MaxRun == 2
MaxMinLen == 3

MKInit ==
  /\ mask \in StringsUpTo(BOOLEAN, MaxMaskLen)
  /\ max_run \in 0..MaxRun
  /\ min_len \in 1..MaxMinLen
  /\ mk_pc = "allow"
  /\ m = <<>> /\ blocks = <<>>
  /\ CSIdle /\ FAIdle /\ GFIdle /\ PLIdle /\ CVIdle /\ NWIdle

\* m = _allow_short_nonconserved_runs(mask, max_run)
MKAllow ==
  /\ mk_pc = "allow"
  /\ m' = _allow_short_nonconserved_runs(mask, max_run)
  /\ mk_pc' = "find"
  /\ UNCHANGED <<mask, max_run, min_len, blocks, csVars, faVars, gfVars, plVars, cvVars, nwVars>>

\* blocks = find_blocks(m, min_len)
MKFind ==
  /\ mk_pc = "find"
  /\ blocks' = find_blocks(m, min_len)
  /\ mk_pc' = "done"
  /\ UNCHANGED <<mask, max_run, min_len, m, csVars, faVars, gfVars, plVars, cvVars, nwVars>>

MKNext == MKAllow \/ MKFind

SpecMask == MKInit /\ [][MKNext]_vars

\* ----------------------------------------- gblock_filter, run and run again
MaxRows == 2
MaxCols == 3
PipeLabels == <<"a", "b", "c", "d">>
MaxBlockLen == 3
MaxNonconsRun == 1
Symbols == {"A", "B", GAP}
Thresholds == {Ratio(0, 1), Ratio(1, 2), Ratio(1, 1)}

\* The entries, labelled by position, with the residue strings ss.
Labelled(ss) == [i \in 1..Len(ss) |-> [h |-> PipeLabels[i], s |-> ss[i]]]

FilterParams ==
  [min_block_len : 1..MaxBlockLen,
   max_gap : Thresholds,
   min_cons : Thresholds,
   flank_cons : {None, Ratio(1, 1)},
   drop_all_gap_columns : BOOLEAN,
   max_noncons_run : 0..MaxNonconsRun]

GFInit ==
  /\ \E k \in 1..MaxRows : \E ss \in [1..k -> StringsUpTo(Symbols, MaxCols)] :
       f_entries = Labelled(ss)
  /\ f_params \in FilterParams
  /\ f_pc = "run1"
  /\ run1 = <<>> /\ run2 = <<>>
  /\ CSIdle /\ FAIdle /\ MKIdle /\ PLIdle /\ CVIdle /\ NWIdle

\* gblock_filter(entries, P) returns.
GFRun ==
  /\ f_pc = "run1"
  /\ gblock_filter(f_entries, f_params).kind = "ok"
  /\ run1' = gblock_filter(f_entries, f_params)
  /\ f_pc' = "run2"
  /\ UNCHANGED <<f_entries, f_params, run2, csVars, faVars, mkVars, plVars, cvVars, nwVars>>

\* gblock_filter(entries, P) raises the unequal-length ValueError.
GFRaise ==
  /\ f_pc = "run1"
  /\ gblock_filter(f_entries, f_params).kind /= "ok"
  /\ run1' = gblock_filter(f_entries, f_params)
  /\ f_pc' = "error"
  /\ UNCHANGED <<f_entries, f_params, run2, csVars, faVars, mkVars, plVars, cvVars, nwVars>>

\* gblock_filter applied to its own output with the same parameters.
GFRunAgain ==
  /\ f_pc = "run2"
  /\ run2' = gblock_filter(run1.entries, f_params)
  /\ f_pc' = "done"
  /\ UNCHANGED <<f_entries, f_params, run1, csVars, faVars, mkVars, plVars, cvVars, nwVars>>

GFNext == GFRun \/ GFRaise \/ GFRunAgain

SpecFilter == GFInit /\ [][GFNext]_vars

\* ----------------------------------------------------------- gblock_pipeline
MaxPipeEntries == 2
MaxPipeLen == 2
Aligners == {"auto", "mafft", "muscle", "none", "MAFFT"}

PipeParams ==
  [min_block_len : 1..MaxPipeLen,
   max_gap : {Ratio(1, 2)},
   min_cons : {Ratio(1, 2), Ratio(1, 1)},
   flank_cons : {None, Ratio(1, 1)},
   drop_all_gap_columns : {TRUE},
   max_noncons_run : {0}]

PLInit ==
  /\ \E k \in 0..MaxPipeEntries : \E ss \in [1..k -> StringsUpTo(Symbols, MaxPipeLen)] :
       p_entries = Labelled(ss)
  /\ p_cfg \in [auto_align : BOOLEAN, aligner : Aligners, fallback_align : BOOLEAN]
  /\ p_env \in [has_mafft : BOOLEAN, has_muscle : BOOLEAN, exe_ok : BOOLEAN]
  /\ p_params \in PipeParams
  /\ p_pc = "start"
  /\ aln = <<>> /\ invoked = "none" /\ trimmed = <<>>
  /\ CSIdle /\ FAIdle /\ MKIdle /\ GFIdle /\ CVIdle /\ NWIdle

PLKeep == UNCHANGED <<p_entries, p_cfg, p_env, p_params, trimmed, csVars, faVars, mkVars, gfVars, cvVars, nwVars>>

\* auto_align is off: aln = entries.
PLNoAutoAlign ==
  /\ p_pc = "start" /\ ~p_cfg.auto_align
  /\ aln' = p_entries /\ invoked' = "none" /\ p_pc' = "check"
  /\ PLKeep

\* auto_align_if_needed returns entries at its first line.
PLAlreadyAligned ==
  /\ p_pc = "start" /\ p_cfg.auto_align
  /\ ~NeedsAlignment(p_entries)
  /\ aln' = p_entries /\ invoked' = "none" /\ p_pc' = "check"
  /\ PLKeep

\* chosen is mafft or muscle, the executable is found and exits with 0:
\* auto_align_if_needed returns parse_fasta(outp), or parse_fasta raises.
PLExternal ==
  /\ p_pc = "start" /\ p_cfg.auto_align
  /\ NeedsAlignment(p_entries)
  /\ Chosen(p_cfg.aligner, p_env) \in {"mafft", "muscle"}
  /\ ExeFound(Chosen(p_cfg.aligner, p_env), p_env)
  /\ invoked' = Chosen(p_cfg.aligner, p_env)
  /\ \E o \in ExternalOutputs(p_entries) :
       /\ aln' = o.entries
       /\ p_pc' = IF o.kind = "ok" THEN "check" ELSE "ValueError: no entries"
  /\ PLKeep

\* chosen is mafft or muscle, the executable is found and exits with an error.
PLExternalFails ==
  /\ p_pc = "start" /\ p_cfg.auto_align
  /\ NeedsAlignment(p_entries)
  /\ Chosen(p_cfg.aligner, p_env) \in {"mafft", "muscle"}
  /\ ExeFound(Chosen(p_cfg.aligner, p_env), p_env)
  /\ invoked' = Chosen(p_cfg.aligner, p_env)
  /\ aln' = <<>> /\ p_pc' = "RuntimeError: tool failed"
  /\ PLKeep

\* chosen is mafft or muscle and run_mafft / run_muscle finds no executable.
PLExternalNotFound ==
  /\ p_pc = "start" /\ p_cfg.auto_align
  /\ NeedsAlignment(p_entries)
  /\ Chosen(p_cfg.aligner, p_env) \in {"mafft", "muscle"}
  /\ ~ExeFound(Chosen(p_cfg.aligner, p_env), p_env)
  /\ invoked' = "none"
  /\ aln' = <<>> /\ p_pc' = "RuntimeError: tool not found"
  /\ PLKeep

\* chosen is neither tool and fallback_align is on.
PLFallback ==
  /\ p_pc = "start" /\ p_cfg.auto_align
  /\ NeedsAlignment(p_entries)
  /\ Chosen(p_cfg.aligner, p_env) \notin {"mafft", "muscle"}
  /\ p_cfg.fallback_align
  /\ aln' = center_star_align(p_entries) /\ invoked' = "center_star"
  /\ p_pc' = "check"
  /\ PLKeep

\* chosen is neither tool and fallback_align is off.
PLNoAligner ==
  /\ p_pc = "start" /\ p_cfg.auto_align
  /\ NeedsAlignment(p_entries)
  /\ Chosen(p_cfg.aligner, p_env) \notin {"mafft", "muscle"}
  /\ ~p_cfg.fallback_align
  /\ aln' = <<>> /\ invoked' = "none"
  /\ p_pc' = "RuntimeError: no aligner found"
  /\ PLKeep

\* The length check left out: unequal entries go on to gblock_filter
PLCheckSkipped ==
  /\ p_pc = "check" /\ ~all_equal_length(aln)
  /\ trimmed' = gblock_filter(aln, p_params)
  /\ p_pc' = gblock_filter(aln, p_params).kind
  /\ UNCHANGED <<p_entries, p_cfg, p_env, p_params, aln, invoked,
                 csVars, faVars, mkVars, gfVars, cvVars, nwVars>>

\* if not all_equal_length(aln): raise ValueError("Alignment failed; ...")
PLCheckFails ==
  /\ p_pc = "check" /\ ~all_equal_length(aln)
  /\ p_pc' = "ValueError: alignment failed"
  /\ UNCHANGED <<aln, invoked>> /\ PLKeep

\* return gblock_filter(aln, ...)
PLFilter ==
  /\ p_pc = "check" /\ all_equal_length(aln)
  /\ trimmed' = gblock_filter(aln, p_params)
  /\ p_pc' = IF gblock_filter(aln, p_params).kind = "ok" THEN "done"
             ELSE gblock_filter(aln, p_params).kind
  /\ UNCHANGED <<p_entries, p_cfg, p_env, p_params, aln, invoked,
                 csVars, faVars, mkVars, gfVars, cvVars, nwVars>>

PLNext ==
  \/ PLNoAutoAlign \/ PLAlreadyAligned \/ PLExternal \/ PLExternalFails
  \/ PLExternalNotFound \/ PLFallback \/ PLNoAligner \/ PLCheckFails \/ PLFilter

SpecPipeline == PLInit /\ [][PLNext]_vars

\* ------------------------------------ convert_gblocks_params_to_internal
MaxN == 3
MaxCount == 4
MaxParam == 2

\* Spellings of the allowed-gap level: the three levels in several cases,
\* literal fractions, and strings that are neither.
GapModes ==
  { <<"N", "o", "n", "e">>, <<"n", "o", "n", "e">>, <<"N", "O", "N", "E">>,
    <<"H", "a", "l", "f">>, <<"h", "a", "l", "f">>, <<"h", "A", "L", "F">>,
    <<"A", "l", "l">>, <<"a", "l", "l">>, <<"A", "L", "L">>,
    <<"0", ".", "2", "5">>, <<"1", ".", "5">>, <<"-", "1">>, <<".", "5">>,
    <<"N", "a", "N">>, <<"-", "i", "n", "f">>, <<"h", "a", "l">>, <<>> }

CVInit ==
  /\ N \in (0 - 1)..MaxN
  /\ gb_min_cons_count \in (0 - 1)..MaxCount
  /\ gb_flank_cons_count \in (0 - 1)..MaxCount
  /\ gb_max_noncons_run \in (0 - 1)..MaxParam
  /\ gb_min_block_len \in (0 - 1)..MaxParam
  /\ gb_allowed_gap \in GapModes
  /\ cv_pc = "call"
  /\ internal = <<>>
  /\ CSIdle /\ FAIdle /\ MKIdle /\ GFIdle /\ PLIdle /\ NWIdle

\* internal = convert_gblocks_params_to_internal(N, ...)
CVConvert ==
  /\ cv_pc = "call"
  /\ internal' = convert_gblocks_params_to_internal(
                   N, gb_min_cons_count, gb_flank_cons_count,
                   gb_max_noncons_run, gb_min_block_len, gb_allowed_gap)
  /\ cv_pc' = "done"
  /\ UNCHANGED <<N, gb_min_cons_count, gb_flank_cons_count, gb_max_noncons_run,
                 gb_min_block_len, gb_allowed_gap,
                 csVars, faVars, mkVars, gfVars, plVars, nwVars>>

CVNext == CVConvert

SpecConvert == CVInit /\ [][CVNext]_vars

\* ------------------------------------------------- nw_align, step by step
MaxNwLen == 4

NWInit ==
  /\ nw_a \in StringsUpTo(Residues, MaxNwLen)
  /\ nw_b \in StringsUpTo(Residues, MaxNwLen)
  /\ nw_pc = "borders"
  /\ nw_mat = [ii \in 1..(Len(nw_a) + 1) |->
                 [jj \in 1..(Len(nw_b) + 1) |-> [score |-> 0, trace |-> 0]]]
  /\ nw_i = 0 /\ nw_j = 0
  /\ nw_A = <<>> /\ nw_B = <<>> /\ nw_ret = <<>>
  /\ CSIdle /\ FAIdle /\ MKIdle /\ GFIdle /\ PLIdle /\ CVIdle

NWKeep == UNCHANGED <<nw_a, nw_b, csVars, faVars, mkVars, gfVars, plVars, cvVars>>

\* The two loops over column 0 and row 0; cell (i, j) is nw_mat[i+1][j+1].
NWBorders ==
  /\ nw_pc = "borders"
  /\ nw_mat' = [ii \in 1..(Len(nw_a) + 1) |->
                  [jj \in 1..(Len(nw_b) + 1) |->
                     IF jj > 1 /\ ii = 1 THEN [score |-> (jj - 1) * gap, trace |-> 3]
                     ELSE IF ii > 1 /\ jj = 1 THEN [score |-> (ii - 1) * gap, trace |-> 2]
                     ELSE nw_mat[ii][jj]]]
  /\ nw_i' = 1 /\ nw_j' = 1
  /\ nw_pc' = "fill"
  /\ UNCHANGED <<nw_A, nw_B, nw_ret>> /\ NWKeep

\* One pass of the inner for loop: cell (i, j) is scored.
NWFillCell ==
  /\ nw_pc = "fill"
  /\ nw_i <= Len(nw_a) /\ nw_j <= Len(nw_b)
  /\ LET sdiag == nw_mat[nw_i][nw_j].score
                    + (IF nw_a[nw_i] = nw_b[nw_j] THEN match ELSE mismatch)
         sup == nw_mat[nw_i][nw_j + 1].score + gap
         sleft == nw_mat[nw_i + 1][nw_j].score + gap
     IN nw_mat' = [nw_mat EXCEPT ![nw_i + 1][nw_j + 1] = NwCell(sdiag, sup, sleft)]
  /\ nw_j' = nw_j + 1
  /\ UNCHANGED <<nw_pc, nw_i, nw_A, nw_B, nw_ret>> /\ NWKeep

\* The inner loop is over: the outer loop moves to the next row.
NWNextRow ==
  /\ nw_pc = "fill"
  /\ nw_i <= Len(nw_a) /\ nw_j > Len(nw_b)
  /\ nw_i' = nw_i + 1 /\ nw_j' = 1
  /\ UNCHANGED <<nw_pc, nw_mat, nw_A, nw_B, nw_ret>> /\ NWKeep

\* The outer loop is over: i, j = n, m.
NWStartTrace ==
  /\ nw_pc = "fill"
  /\ nw_i > Len(nw_a)
  /\ nw_i' = Len(nw_a) /\ nw_j' = Len(nw_b)
  /\ nw_pc' = "trace"
  /\ UNCHANGED <<nw_mat, nw_A, nw_B, nw_ret>> /\ NWKeep

\* One pass of the while loop with t == tt.
NWStep(tt) ==
  /\ nw_pc = "trace"
  /\ nw_i > 0 \/ nw_j > 0
  /\ TraceOf(nw_mat[nw_i + 1][nw_j + 1].trace) = tt
  /\ LET st == TraceStep(tt, nw_a, nw_b, nw_i, nw_j, nw_A, nw_B)
     IN nw_i' = st.i /\ nw_j' = st.j /\ nw_A' = st.A /\ nw_B' = st.B
  /\ UNCHANGED <<nw_pc, nw_mat, nw_ret>> /\ NWKeep

NWStepDiag == NWStep(1)
NWStepUp == NWStep(2)
NWStepLeft == NWStep(3)

\* The loop condition is false: return the two strings.
NWReturn ==
  /\ nw_pc = "trace"
  /\ ~(nw_i > 0 \/ nw_j > 0)
  /\ nw_ret' = <<nw_A, nw_B>>
  /\ nw_pc' = "done"
  /\ UNCHANGED <<nw_mat, nw_i, nw_j, nw_A, nw_B>> /\ NWKeep

NWNext ==
  \/ NWBorders \/ NWFillCell \/ NWNextRow \/ NWStartTrace
  \/ NWStepDiag \/ NWStepUp \/ NWStepLeft \/ NWReturn

\* The function runs to its end: an enabled step is eventually taken.
SpecNW == NWInit /\ [][NWNext]_vars /\ WF_vars(NWNext)

\* ================================================================ claims
UnequalLengths(es) == \E i, j \in 1..Len(es) : Len(es[i].s) /= Len(es[j].s)

\* C1 (as claimed): for two or more gap-free sequences of unequal lengths,
\* every residue string center_star_align returns has the same length.
C1_EqualLengthOutput ==
  (cs_pc = "done" /\ Len(entries) >= 2 /\ UnequalLengths(entries))
    => \A i, j \in 1..Len(out) : Len(out[i].s) = Len(out[j].s)

\* C2: at every point of center_star_align, each aligned string built so far
\* (after its first expansion and after every re-expansion) gives back the
\* residues of its input entry, in order and once each, when '-' is removed.
C2_ResiduesPreserved ==
  /\ Len(aligned_seqs) <= Len(entries)
  /\ \A i \in 1..Len(aligned_seqs) : Degap(aligned_seqs[i]) = entries[i].s

\* C2 witness: three entries are aligned, the first one was re-expanded with
\* gaps inserted before a residue, and the master pattern is not all zero.
C2_Witness ==
  /\ cs_pc = "loop" /\ Len(aligned_seqs) = 3
  /\ \E k \in 1..Len(master_gaps) : master_gaps[k] > 0
  /\ Len(entries[1].s) = MaxSeqLen
  /\ Head(aligned_seqs[1]) = GAP

\* C3 (as claimed): the output has one entry per input entry, and the i-th
\* output entry carries the i-th input label and the i-th input residues.
C3_InputOrder ==
  cs_pc = "done" =>
    /\ Len(out) = Len(entries)
    /\ \A i \in 1..Len(out) :
         out[i].h = entries[i].h /\ Degap(out[i].s) = entries[i].s

HasSpecial(s) == \E i \in 1..Len(s) : s[i] \in {GT, SP, NL}

\* C5 (as claimed): parse, write with any wrap width, parse again gives the
\* entries of the first parse.
C5_RoundTrip ==
  fa_pc = "done" => xs2 = [kind |-> "ok", entries |-> xs]

\* C5 (amended): the round trip holds when the wrap width is <= 0, and for a
\* positive wrap width when no parsed residue string holds '>' or whitespace.
C5_RoundTripAmended ==
  (fa_pc = "done" /\ (wrap <= 0 \/ \A i \in 1..Len(xs) : ~HasSpecial(xs[i].s)))
    => xs2 = [kind |-> "ok", entries |-> xs]

\* C5 witness: a residue string of three characters over two lines was
\* written wrapped at two and parsed back.
C5_Witness ==
  /\ fa_pc = "done" /\ wrap = 2
  /\ \E i \in 1..Len(xs) : Len(xs[i].s) = 3 /\ ~HasSpecial(xs[i].s)
  /\ xs2.kind = "ok"

\* C4 (as claimed): a second run of gblock_filter on the output of the first,
\* with the same parameters, returns that output unchanged.
C4_Idempotent ==
  f_pc = "done" => (run2.kind = "ok" /\ run2.entries = run1.entries)

OutputCols(r) == Len(r.entries[1].s)

\* C4 (amended): the second run returns the output of the first unchanged
\* whenever drop_all_gap_columns is off, or the first output has no column
\* or at least min_block_len columns.
C4_IdempotentAmended ==
  (/\ f_pc = "done"
   /\ \/ ~f_params.drop_all_gap_columns
      \/ OutputCols(run1) = 0
      \/ OutputCols(run1) >= f_params.min_block_len)
    => (run2.kind = "ok" /\ run2.entries = run1.entries)

\* C4 witness: the first run dropped an all-gap column, still left at least
\* min_block_len columns, and the second run changed nothing.
C4_Witness ==
  /\ f_pc = "done" /\ f_params.drop_all_gap_columns
  /\ run1.blocks /= <<>>
  /\ OutputCols(run1) < SumSeq([b \in 1..Len(run1.blocks) |->
                                  run1.blocks[b][2] - run1.blocks[b][1]])
  /\ OutputCols(run1) >= f_params.min_block_len
  /\ run2.entries = run1.entries

\* The strategy the claimed order selects for entries that need alignment.
ClaimedStrategy(cfg, env) ==
  LET conf == Lower(cfg.aligner) IN
  IF conf \in {"mafft", "muscle"} /\ ExeFound(conf, env) THEN conf
  ELSE IF env.has_mafft THEN "mafft"
  ELSE IF env.has_muscle THEN "muscle"
  ELSE IF cfg.fallback_align THEN "center_star"
  ELSE "error"

\* C6 (as claimed): for entries that need alignment the strategy is the
\* configured aligner if available, else an auto-detected one, else the
\* Center-Star builder if fallback is on, else the no-aligner error; a
\* configured but unavailable aligner falls through. (Stated for the aligner
\* settings auto, mafft and muscle; any RuntimeError counts as the error.)
C6_DispatchOrder ==
  (/\ p_pc /= "start" /\ p_cfg.auto_align
   /\ Len(p_entries) >= 2 /\ UnequalLengths(p_entries)
   /\ Lower(p_cfg.aligner) \in {"auto", "mafft", "muscle"})
    => IF ClaimedStrategy(p_cfg, p_env) = "error"
       THEN p_pc \in {"RuntimeError: no aligner found", "RuntimeError: tool not found"}
       ELSE invoked = ClaimedStrategy(p_cfg, p_env)

DispatchErrors ==
  {"RuntimeError: no aligner found", "RuntimeError: tool not found",
   "RuntimeError: tool failed", "ValueError: no entries"}

\* C7: with at most one entry, or with residue strings of one length,
\* auto_align_if_needed returns the entries unchanged, runs no aligner and
\* raises nothing, whatever the aligner setting, the tools found and the
\* fallback flag.
C7_NoAlignmentNeeded ==
  (/\ p_pc /= "start" /\ p_cfg.auto_align
   /\ (Len(p_entries) <= 1 \/ ~UnequalLengths(p_entries)))
    => (aln = p_entries /\ invoked = "none" /\ p_pc \notin DispatchErrors)

\* C7 witness: two entries of equal length passed the dispatcher untouched
\* although mafft is configured, no tool is found and fallback is off.
C7_Witness ==
  /\ p_pc = "check" /\ p_cfg.auto_align
  /\ Len(p_entries) = 2 /\ Len(p_entries[1].s) = 2
  /\ p_cfg.aligner = "mafft" /\ ~p_cfg.fallback_align
  /\ ~p_env.has_mafft /\ ~p_env.has_muscle /\ ~p_env.exe_ok
  /\ aln = p_entries

\* Column i (1-based) of the matrix passes the test of gblock_filter's mask
\* with conservation threshold t.
ColKept(es, i, P, t) ==
  LET n == Len(es)
      gaps == Cardinality({r \in 1..n : es[r].s[i] = GAP})
      top == CHOOSE c \in 0..n :
               /\ \A y \in Symbols \ {GAP} : Cardinality({r \in 1..n : es[r].s[i] = y}) <= c
               /\ \E y \in Symbols \ {GAP} : Cardinality({r \in 1..n : es[r].s[i] = y}) = c
  IN /\ gaps * P.max_gap.d <= P.max_gap.n * n
     /\ IF gaps = n THEN 0 >= t.n ELSE top * t.d >= t.n * (n - gaps)

\* No run of min_block_len kept columns exists (max_noncons_run = 0), or no
\* stretch of min_block_len columns inside one has flank-conserved ends.
NoBlockSurvives(es, P) ==
  LET L == Len(es[1].s) IN
  ~\E a \in 1..L : \E b \in a..L :
      /\ b - a + 1 >= P.min_block_len
      /\ \A i \in a..b : ColKept(es, i, P, P.min_cons)
      /\ P.flank_cons /= None =>
           (ColKept(es, a, P, P.flank_cons) /\ ColKept(es, b, P, P.flank_cons))

\* C8: for a non-empty equal-length matrix and parameters under which no
\* block survives, gblock_pipeline (and the gblock_filter call in it) returns
\* one entry per input entry, same labels, same order, every residue string
\* empty, and raises nothing.
C8_EmptyResultIsSuccess ==
  (/\ p_pc \notin {"start", "check"}
   /\ Len(p_entries) >= 1 /\ ~UnequalLengths(p_entries)
   /\ NoBlockSurvives(p_entries, p_params))
    => /\ p_pc = "done" /\ trimmed.kind = "ok"
       /\ Len(trimmed.entries) = Len(p_entries)
       /\ \A i \in 1..Len(p_entries) :
            trimmed.entries[i].h = p_entries[i].h /\ trimmed.entries[i].s = <<>>

\* C8 witness: a run is kept by the base mask, soft trimming removes it, and
\* the pipeline is done with two empty residue strings.
C8_Witness ==
  /\ p_pc = "done" /\ Len(p_entries) = 2 /\ Len(p_entries[1].s) = 2
  /\ trimmed.raw_blocks /= <<>> /\ trimmed.blocks = <<>>
  /\ NoBlockSurvives(p_entries, p_params)
  /\ \A i \in 1..2 : trimmed.entries[i].s = <<>>

\* Column k lies in a maximal run of unkept columns of the input mask that is
\* at most max_run long and has a kept column on each side.
Promoted(k) ==
  \E i \in 1..Len(mask) : \E j \in i..Len(mask) :
    /\ i <= k /\ k <= j
    /\ \A t \in i..j : ~mask[t]
    /\ i > 1 /\ mask[i - 1]
    /\ j < Len(mask) /\ mask[j + 1]
    /\ j - i + 1 <= max_run

\* C9: for max_run > 0 the result has the length of the mask, and a column is
\* kept iff it was kept or lies in a maximal unkept run of length <= max_run
\* with a kept column on both sides (no promotion at either end, none of a
\* longer run, no cascade).
C9_AllowShortRuns ==
  (mk_pc /= "allow" /\ max_run > 0)
    => /\ Len(m) = Len(mask)
       /\ \A k \in 1..Len(mask) : m[k] = (mask[k] \/ Promoted(k))

\* C9 witness: [T,F,F,T] with max_run = 2 became [T,T,T,T].
C9_Witness ==
  /\ mk_pc = "find" /\ max_run = 2
  /\ mask = <<TRUE, FALSE, FALSE, TRUE>>
  /\ m = <<TRUE, TRUE, TRUE, TRUE>>

CountIn(es, i, c) == Cardinality({r \in 1..Len(es) : es[r].s[i] = c})

\* C10: column_metrics returns one entry per column; gap_ratio is the number
\* of '-' over n; cons_ratio is 0 for an all-gap column and else the largest
\* count of one non-gap symbol over the number of non-gap entries; both lie
\* in [0, 1].
C10_ColumnMetrics ==
  f_pc \in {"run2", "done"} =>
    LET n == Len(f_entries)
        L == Len(f_entries[1].s)
    IN /\ Len(run1.mets) = L
       /\ \A i \in 1..L :
            LET g == run1.mets[i].gap_ratio
                c == run1.mets[i].cons_ratio
                gaps == CountIn(f_entries, i, GAP)
            IN /\ g.d > 0 /\ c.d > 0
               /\ g.n * n = gaps * g.d
               /\ IF gaps = n THEN c.n = 0
                  ELSE /\ \A y \in Symbols \ {GAP} :
                            CountIn(f_entries, i, y) * c.d <= c.n * (n - gaps)
                       /\ \E y \in Symbols \ {GAP} :
                            CountIn(f_entries, i, y) * c.d = c.n * (n - gaps)
               /\ 0 <= g.n /\ g.n <= g.d
               /\ 0 <= c.n /\ c.n <= c.d

\* C10 witness: two sequences with an all-gap column, a column with one gap
\* and a column with two different residues.
C10_Witness ==
  /\ f_pc = "run2" /\ Len(f_entries) = 2 /\ Len(f_entries[1].s) = 3
  /\ \E i \in 1..3 : CountIn(f_entries, i, GAP) = 2
  /\ \E i \in 1..3 : CountIn(f_entries, i, GAP) = 1
  /\ \E i \in 1..3 : CountIn(f_entries, i, "A") = 1 /\ CountIn(f_entries, i, "B") = 1

\* The count x limited to lo..hi (lo <= hi).
Clamp(x, lo, hi) == IF x < lo THEN lo ELSE IF x > hi THEN hi ELSE x

\* mode spells word when letter case is ignored.
SpellsLevel(mode, word) ==
  /\ Len(mode) = Len(word)
  /\ \A i \in 1..Len(word) :
       \/ mode[i] = word[i]
       \/ \E k \in 1..Len(LowerCase) : LowerCase[k] = word[i] /\ UpperCase[k] = mode[i]

\* C11: convert_gblocks_params_to_internal returns, for a sequence count
\* N >= 1, min_cons = clamp(gb_min_cons_count, 1, N)/N and flank_cons =
\* clamp(gb_flank_cons_count, 1, N)/N; both lie in (0, 1] for every integer
\* input, N <= 0 included; max_gap is 0, 1/2, 1 for the levels none, half, all
\* in any letter case; min_block_len = max(1, given) and max_noncons_run =
\* max(0, given).
C11_ConvertParams ==
  cv_pc = "done" =>
    /\ N >= 1 =>
         /\ REq(internal.min_cons, Ratio(Clamp(gb_min_cons_count, 1, N), N))
         /\ REq(internal.flank_cons, Ratio(Clamp(gb_flank_cons_count, 1, N), N))
    /\ \A r \in {internal.min_cons, internal.flank_cons} :
         /\ r.d > 0
         /\ r.n > 0
         /\ r.n <= r.d
    /\ SpellsLevel(gb_allowed_gap, <<"n", "o", "n", "e">>)
         => REq(internal.max_gap, Ratio(0, 1))
    /\ SpellsLevel(gb_allowed_gap, <<"h", "a", "l", "f">>)
         => REq(internal.max_gap, Ratio(1, 2))
    /\ SpellsLevel(gb_allowed_gap, <<"a", "l", "l">>)
         => REq(internal.max_gap, Ratio(1, 1))
    /\ internal.min_block_len = (IF gb_min_block_len >= 1 THEN gb_min_block_len ELSE 1)
    /\ internal.max_noncons_run = (IF gb_max_noncons_run >= 0 THEN gb_max_noncons_run ELSE 0)

\* A count above N is limited to N, a mixed-case level is recognised, and the
\* two lower limits act.
C11_Witness ==
  /\ cv_pc = "done"
  /\ N = 3 /\ gb_min_cons_count = 4 /\ gb_flank_cons_count = 0
  /\ gb_allowed_gap = <<"h", "A", "L", "F">>
  /\ gb_min_block_len = 0 /\ gb_max_noncons_run = 0 - 1
  /\ REq(internal.min_cons, Ratio(1, 1)) /\ REq(internal.flank_cons, Ratio(1, 3))

\* The move recorded at cell (i, j) stays inside the matrix.
LegalMove(mat, i, j) ==
  LET t == mat[i + 1][j + 1].trace
  IN /\ t = 1 => i > 0 /\ j > 0
     /\ t = 2 => i > 0
     /\ t \notin {1, 2} => j > 0

C12_Aligned ==
  /\ nw_pc = "trace" =>
       /\ nw_i \in 0..Len(nw_a) /\ nw_j \in 0..Len(nw_b)
       /\ (nw_i > 0 \/ nw_j > 0) => LegalMove(nw_mat, nw_i, nw_j)
  /\ nw_pc = "done" =>
       /\ nw_i = 0 /\ nw_j = 0
       /\ Len(nw_ret[1]) = Len(nw_ret[2])
       /\ Degap(nw_ret[1]) = nw_a
       /\ Degap(nw_ret[2]) = nw_b
       /\ \A k \in 1..Len(nw_ret[1]) : ~(nw_ret[1][k] = GAP /\ nw_ret[2][k] = GAP)

\* C12: for any two gap-free strings a and b (either may be empty),
\* nw_align(a, b) terminates and returns strings A and B of equal length,
\* A without '-' is a, B without '-' is b, no position holds '-' in both, and
\* the traceback from (n, m) follows the recorded choices, never leaves the
\* matrix and ends at (0, 0).
C12_NwAlign == [](C12_Aligned) /\ <>(nw_pc = "done")

\* ABA against BAB: a gap is placed in each string.
C12_Witness ==
  /\ nw_pc = "done"
  /\ nw_a = <<"A", "B", "A">> /\ nw_b = <<"B", "A", "B">>
  /\ nw_ret = <<<<GAP, "A", "B", "A">>, <<"B", "A", "B", GAP>>>>

\* Columns s..e-1 (0-based) of mk are a maximal run of kept columns.
MaximalRun(mk, s, e) ==
  /\ 0 <= s /\ s < e /\ e <= Len(mk)
  /\ \A c \in s..(e - 1) : mk[c + 1]
  /\ s = 0 \/ ~mk[s]
  /\ e = Len(mk) \/ ~mk[e + 1]

\* C13: find_blocks(mask, min_len) returns exactly the maximal runs of kept
\* columns of length >= min_len, as half-open intervals [start, end) with
\* end > start, in ascending order, disjoint and never adjacent; a shorter
\* kept run gives no block and none of its columns lies in a block; a run
\* ending at the last column is found like any other.
C13_FindBlocks ==
  mk_pc = "done" =>
    /\ {blocks[k] : k \in 1..Len(blocks)} =
         {<<s, e>> \in (0..Len(m)) \X (0..Len(m)) :
            MaximalRun(m, s, e) /\ e - s >= min_len}
    /\ \A k \in 1..Len(blocks) : blocks[k][2] > blocks[k][1]
    /\ \A k \in 1..(Len(blocks) - 1) : blocks[k][2] < blocks[k + 1][1]
    /\ \A s, e \in 0..Len(m) :
         MaximalRun(m, s, e) /\ e - s < min_len =>
           \A c \in s..(e - 1) : \A k \in 1..Len(blocks) :
             ~(blocks[k][1] <= c /\ c < blocks[k][2])

\* A kept run shorter than min_len, then a block that ends at the last column.
C13_Witness ==
  /\ mk_pc = "done"
  /\ m = <<TRUE, FALSE, TRUE, TRUE>> /\ min_len = 2
  /\ blocks = <<<<2, 4>>>>

\* Column c (0-based) passes the flank test of soft_trim_block.
FlankColumn(r, P, c) ==
  /\ r.mets[c + 1].gap_ratio.n * P.max_gap.d <= P.max_gap.n * r.mets[c + 1].gap_ratio.d
  /\ r.mets[c + 1].cons_ratio.n * P.flank_cons.d >= P.flank_cons.n * r.mets[c + 1].cons_ratio.d

\* The number of columns from the first to the last flank column of block b.
TrimmedLength(r, P, b) ==
  LET ok == {c \in b[1]..(b[2] - 1) : FlankColumn(r, P, c)}
  IN IF ok = {} THEN 0
     ELSE (CHOOSE c \in ok : \A x \in ok : x <= c)
            - (CHOOSE c \in ok : \A x \in ok : c <= x) + 1

\* C14: with flank_cons given, every block gblock_filter keeps after soft
\* trimming lies inside one untrimmed block, its first and its last column
\* pass gap_ratio <= max_gap and cons_ratio >= flank_cons, and it has at least
\* min_block_len columns; an untrimmed block whose trimmed length is below
\* min_block_len (0 included) gives no block and no output column.
C14_SoftTrim ==
  (f_pc \in {"run2", "done"} /\ f_params.flank_cons /= None) =>
    /\ \A k \in 1..Len(run1.blocks) :
         LET b == run1.blocks[k] IN
         /\ \E j \in 1..Len(run1.raw_blocks) :
              run1.raw_blocks[j][1] <= b[1] /\ b[2] <= run1.raw_blocks[j][2]
         /\ FlankColumn(run1, f_params, b[1])
         /\ FlankColumn(run1, f_params, b[2] - 1)
         /\ b[2] - b[1] >= f_params.min_block_len
    /\ \A j \in 1..Len(run1.raw_blocks) :
         LET rb == run1.raw_blocks[j] IN
         TrimmedLength(run1, f_params, rb) < f_params.min_block_len =>
           /\ \A k \in 1..Len(run1.blocks) :
                run1.blocks[k][2] <= rb[1] \/ rb[2] <= run1.blocks[k][1]
           /\ \A i \in 1..Len(run1.keep) :
                run1.keep[i] < rb[1] \/ rb[2] <= run1.keep[i]
           /\ Len(run1.entries[1].s) = Len(run1.keep)

\* A block of three columns loses its last column to the trimming and stays.
C14_Witness ==
  /\ f_pc = "run2" /\ f_params.flank_cons /= None
  /\ run1.raw_blocks = <<<<0, 3>>>>
  /\ run1.blocks = <<<<0, 2>>>>

\* C15: column scoring and block extraction never run on entries whose residue
\* strings differ in length: when the entries after the alignment step
\* (auto_align off, an external aligner's output, or the fallback aligner's)
\* are unequal, gblock_pipeline ends with the alignment-failed error and no
\* trimmed result, and gblock_filter called on them raises the unequal-length
\* error with no column metric computed.
C15_NoScoringOnUnequal ==
  /\ trimmed /= <<>> => all_equal_length(aln)
  /\ UnequalLengths(aln) =>
       /\ p_pc \in {"check", "ValueError: alignment failed"}
       /\ trimmed = <<>>
       /\ gblock_filter(aln, p_params).kind = "ValueError: equal length required"
       /\ gblock_filter(aln, p_params).mets = <<>>
       /\ gblock_filter(aln, p_params).entries = <<>>

\* The fallback aligner returned strings of unequal length and the pipeline
\* stopped with the alignment-failed error.
C15_Witness ==
  /\ p_pc = "ValueError: alignment failed"
  /\ invoked = "center_star"
  /\ UnequalLengths(aln)
  /\ trimmed = <<>>

RECURSIVE InsertsGapsOnly(_, _)
\* new is old with zero or more '-' inserted.
InsertsGapsOnly(old, new) ==
  IF new = <<>> THEN old = <<>>
  ELSE \/ old /= <<>> /\ Head(old) = Head(new) /\ InsertsGapsOnly(Tail(old), Tail(new))
       \/ Head(new) = GAP /\ InsertsGapsOnly(old, Tail(new))

\* The gap pattern of the k-th entry against the reference.
PatternOf(k) ==
  LET base_ref == entries[center_idx(entries)].s
  IN gap_pattern_from_aligned_base(base_ref, nw_align(base_ref, entries[k].s)[1])

C16_MasterIsMax ==
  cs_pc = "loop" =>
    /\ Len(master_gaps) = Len(entries[center_idx(entries)].s) + 1
    /\ \A p \in 1..Len(master_gaps) :
         LET vals == {0} \cup {PatternOf(k)[p] : k \in 1..Len(aligned_seqs)}
         IN /\ master_gaps[p] \in vals
            /\ \A v \in vals : v <= master_gaps[p]

C16_LoopStep ==
  cs_pc = "loop" /\ cs_pc' = "loop" =>
    /\ Len(master_gaps') = Len(master_gaps)
    /\ \A p \in 1..Len(master_gaps) : master_gaps'[p] >= master_gaps[p]
    /\ Len(aligned_seqs') = Len(aligned_seqs) + 1
    /\ \A k \in 1..Len(aligned_seqs) :
         /\ InsertsGapsOnly(aligned_seqs[k], aligned_seqs'[k])
         /\ Len(aligned_seqs'[k]) >= Len(aligned_seqs[k])

\* C16: throughout center_star_align, after each entry the master gap pattern
\* has length L+1 (L the reference length) and is the position-wise maximum
\* (not the sum) of the gap patterns of the entries processed so far, so no
\* position of it decreases; each re-expansion of an aligned sequence gives
\* its previous version with '-' inserted only, never a shorter string.
C16_MasterGaps == [](C16_MasterIsMax) /\ [][C16_LoopStep]_vars

\* Two processed entries ask for a gap at the same position (maximum and sum
\* differ) and the first aligned sequence has been re-expanded to a longer one.
C16_Witness ==
  /\ cs_pc = "loop" /\ Len(aligned_seqs) >= 2
  /\ \E p \in 1..Len(master_gaps) : \E k1, k2 \in 1..Len(aligned_seqs) :
       /\ k1 < k2 /\ PatternOf(k1)[p] > 0 /\ PatternOf(k2)[p] > 0
       /\ master_gaps[p] < PatternOf(k1)[p] + PatternOf(k2)[p]
  /\ Len(aligned_seqs[1]) >
       Len(CenterStarBody(entries[center_idx(entries)].s, CenterStarStart(entries),
                          entries[1]).aligned_seqs[1])

====
